---- MODULE Spec2Model ----
(***************************************************************************)
(* Model of the AI analysis adapter analyzeFoodWaste (server/ai/vision.js) *)
(* of the food-waste reducer: credential check, image read, model          *)
(* discovery, fallback generation loop, tolerant JSON extraction,          *)
(* normalization and the error classification of the outer catch.          *)
(*                                                                         *)
(* Strings are sequences of fragments.  A fragment is an atomic piece of   *)
(* text that contains none of the substrings the code searches for unless  *)
(* the fragment IS that substring, so String.prototype.includes is the     *)
(* contiguous-subsequence test and concatenation is \o.                    *)
(* JavaScript values are records tagged by their typeof/kind.              *)
(***************************************************************************)
EXTENDS Integers, Sequences, FiniteSets, TLC

(* ------------------------------ bounds -------------------------------- *)
\* longest model catalog the discovery request answers with
MaxCatalog == 2
\* longest items array of an upstream payload of the normalization inputs
MaxItems == 2
\* largest magnitude of a monetary value of an upstream payload
MaxValue == 2
\* longest catalog of the candidate-selection inputs
MaxSelection == 4

(* ------------------------------ strings ------------------------------- *)
\* String.prototype.includes on fragment sequences
Includes(s, pat) ==
    \E i \in 0..(Len(s) - Len(pat)) :
        \A j \in 1..Len(pat) : s[i + j] = pat[j]

\* String.prototype.endsWith on fragment sequences
EndsWith(s, pat) ==
    /\ Len(s) >= Len(pat)
    /\ \A j \in 1..Len(pat) : s[Len(s) - Len(pat) + j] = pat[j]

\* String.prototype.toLowerCase, on the fragments paths are made of
LowerFragment(f) ==
    CASE f = ".PNG" -> ".png"
      [] f = ".JPG" -> ".jpg"
      [] OTHER -> f

ToLowerCase(s) == [i \in 1..Len(s) |-> LowerFragment(s[i])]

\* Array.prototype.join(', ') of an array of strings
RECURSIVE Join(_)
Join(names) ==
    IF Len(names) = 0 THEN <<>>
    ELSE IF Len(names) = 1 THEN names[1]
    ELSE names[1] \o <<", ">> \o Join(Tail(names))

\* all sequences over S of length at most n
SeqUpTo(S, n) == UNION {[1..k -> S] : k \in 0..n}

(* --------------------------- JavaScript values ------------------------ *)
Undefined == [type |-> "undefined"]
Null == [type |-> "null"]
Num(n) == [type |-> "number", n |-> n]
Str(s) == [type |-> "string", s |-> s]
Bool(b) == [type |-> "boolean", b |-> b]
Arr(e) == [type |-> "array", elems |-> e]

\* ToBoolean
Truthy(v) ==
    CASE v.type = "undefined" -> FALSE
      [] v.type = "null" -> FALSE
      [] v.type = "number" -> v.n # 0
      [] v.type = "string" -> v.s # <<>>
      [] v.type = "boolean" -> v.b
      [] OTHER -> TRUE

\* ToString of a value that takes part in a + with a string
ToStr(v) ==
    CASE v.type = "string" -> v.s
      [] v.type = "number" -> <<ToString(v.n)>>
      [] v.type = "boolean" -> IF v.b THEN <<"true">> ELSE <<"false">>
      [] v.type = "null" -> <<"null">>
      [] v.type = "undefined" -> <<"undefined">>
      [] v.type = "array" -> <<"[array]">>
      [] OTHER -> <<"[object Object]">>

\* ToNumber of a primitive that takes part in a numeric +
ToNum(v) ==
    CASE v.type = "number" -> v.n
      [] v.type = "boolean" -> IF v.b THEN 1 ELSE 0
      [] OTHER -> 0

\* the binary + operator: concatenation as soon as one side is a string or
\* an object, numeric addition otherwise
Plus(a, b) ==
    IF a.type \in {"string", "object", "array"} \/ b.type \in {"string", "object", "array"}
    THEN Str(ToStr(a) \o ToStr(b))
    ELSE Num(ToNum(a) + ToNum(b))

(* ------------------------------- errors ------------------------------- *)
\* an Error object: the statement that constructed it and its message
Err(site, message) == [site |-> site, message |-> message]

\* lastError before any candidate failed (undefined)
NoError == Err("none", <<>>)

ConfigMissingMsg ==
    <<"GEMINI_", "API_KEY", " is not set", " in your .env file. Please add it.">>

\* variant: the message names only the candidates before the last one
AllFailedMsgDropsLast(lastErr, names) ==
    <<"All model attempts failed. Last error: ">>
        \o (IF lastErr # NoError /\ lastErr.message # <<>>
            THEN lastErr.message ELSE <<"Unknown error">>)
        \o <<". Tried models: ">> \o Join(SubSeq(names, 1, Len(names) - 1))

AllFailedMsg(lastErr, names) ==
    <<"All model attempts failed. Last error: ">>
        \o (IF lastErr # NoError /\ lastErr.message # <<>>
            THEN lastErr.message ELSE <<"Unknown error">>)
        \o <<". Tried models: ">> \o Join(names)

ParseFailedMsg ==
    <<"Failed to parse AI response. The AI did not return valid JSON.">>

InvalidKeyMsg ==
    <<"Invalid Gemini ", "API key", ". Please check your .env file and ensure ",
      "GEMINI_", "API_KEY",
      " is set correctly. Get your key at https://aistudio.google.com/app/apikey">>

QuotaMsg ==
    <<"Gemini API ", "quota",
      " exceeded. Please check your Google Cloud billing and add credits. Visit https://console.cloud.google.com/ to manage your ",
      "quota", ".">>

ForbiddenMsg ==
    <<"Gemini API access forbidden. Please check your ", "API key",
      " permissions and enable the Generative AI API in Google Cloud Console.">>

InvalidRequestMsg ==
    <<"Invalid request to Gemini API. Please check the image format and try again.">>

ImageNotFoundMsg ==
    <<"Image ", "file not found", ". Please try uploading again.">>

GenericMsg(message) ==
    <<"AI analysis failed: ">>
        \o (IF message # <<>> THEN message ELSE <<"Unknown error occurred">>)

\* variant: the quota branch looks for "quota" only
ClassifyWithout429(error) ==
    IF Includes(error.message, <<"API_KEY">>)
    THEN Err("classify", InvalidKeyMsg)
    ELSE IF Includes(error.message, <<"quota">>)
    THEN Err("classify", QuotaMsg)
    ELSE IF Includes(error.message, <<"403">>)
            \/ Includes(error.message, <<"PERMISSION_DENIED">>)
    THEN Err("classify", ForbiddenMsg)
    ELSE IF Includes(error.message, <<"400">>)
            \/ Includes(error.message, <<"INVALID_ARGUMENT">>)
    THEN Err("classify", InvalidRequestMsg)
    ELSE IF Includes(error.message, <<"ENOENT">>)
    THEN Err("classify", ImageNotFoundMsg)
    ELSE IF Includes(error.message, <<"GEMINI_", "API_KEY", " is not set">>)
    THEN error
    ELSE Err("classify", GenericMsg(error.message))

\* variant: the branch for "400" and "INVALID_ARGUMENT" is missing
ClassifyWithout400(error) ==
    IF Includes(error.message, <<"API_KEY">>)
    THEN Err("classify", InvalidKeyMsg)
    ELSE IF Includes(error.message, <<"quota">>) \/ Includes(error.message, <<"429">>)
    THEN Err("classify", QuotaMsg)
    ELSE IF Includes(error.message, <<"403">>)
            \/ Includes(error.message, <<"PERMISSION_DENIED">>)
    THEN Err("classify", ForbiddenMsg)
    ELSE IF Includes(error.message, <<"ENOENT">>)
    THEN Err("classify", ImageNotFoundMsg)
    ELSE IF Includes(error.message, <<"GEMINI_", "API_KEY", " is not set">>)
    THEN error
    ELSE Err("classify", GenericMsg(error.message))

\* the catch block of analyzeFoodWaste: the error it throws to the caller
Classify(error) ==
    IF Includes(error.message, <<"API_KEY">>)
    THEN Err("classify", InvalidKeyMsg)
    ELSE IF Includes(error.message, <<"quota">>) \/ Includes(error.message, <<"429">>)
    THEN Err("classify", QuotaMsg)
    ELSE IF Includes(error.message, <<"403">>)
            \/ Includes(error.message, <<"PERMISSION_DENIED">>)
    THEN Err("classify", ForbiddenMsg)
    ELSE IF Includes(error.message, <<"400">>)
            \/ Includes(error.message, <<"INVALID_ARGUMENT">>)
    THEN Err("classify", InvalidRequestMsg)
    ELSE IF Includes(error.message, <<"ENOENT">>)
    THEN Err("classify", ImageNotFoundMsg)
    ELSE IF Includes(error.message, <<"GEMINI_", "API_KEY", " is not set">>)
    THEN error
    ELSE Err("classify", GenericMsg(error.message))

\* the error kind of section 4.2 that an error raised to the caller stands for
KindOf(error) ==
    CASE error.message = InvalidKeyMsg -> "InvalidCredential"
      [] error.message = QuotaMsg -> "QuotaExceeded"
      [] error.message = ForbiddenMsg -> "AccessForbidden"
      [] error.message = InvalidRequestMsg -> "InvalidRequest"
      [] error.message = ImageNotFoundMsg -> "SourceImageNotFound"
      [] error.message = ConfigMissingMsg -> "ConfigurationError"
      [] OTHER -> "GenericAnalysisFailure"

(* ---------------------------- image file ------------------------------ *)
\* upload paths as the server names them: uploads/<Date.now()>-<random>-<original name>
UploadPath(stamp, rnd, name) ==
    <<"uploads/">> \o stamp \o <<"-">> \o rnd \o <<"-">> \o name

ImagePaths ==
    { UploadPath(<<"1762089000111">>, <<"52731">>, <<"plate", ".png">>),
      UploadPath(<<"17620", "400", "11111">>, <<"52731">>, <<"plate", ".jpg">>),
      UploadPath(<<"17620", "403", "11111">>, <<"52731">>, <<"plate", ".jpeg">>),
      UploadPath(<<"1762089000111">>, <<"52", "429", "7">>, <<"plate", ".PNG">>),
      UploadPath(<<"1762089000111">>, <<"52731">>, <<"quota", "-report", ".gif">>),
      UploadPath(<<"1762089000111">>, <<"52731">>, <<"API_KEY", "-screenshot">>) }

\* the error readFileSync throws for a path that names no file
EnoentError(path) ==
    Err("readFileSync",
        <<"ENOENT", ": no such file or directory, open '">> \o path \o <<"'">>)

\* the media type derived from the extension
MimeType(path) ==
    IF EndsWith(ToLowerCase(path), <<".png">>) THEN "image/png"
    ELSE IF EndsWith(ToLowerCase(path), <<".jpg">>)
            \/ EndsWith(ToLowerCase(path), <<".jpeg">>) THEN "image/jpeg"
    ELSE "image/jpeg"

(* ------------------------- model discovery ---------------------------- *)
\* model descriptors a catalog response can carry: three with a name of the
\* form models/<identifier>, one without a name
Descriptor(name) == [type |-> "object", name |-> name]

Descriptors ==
    { Descriptor(Str(<<"models/", "gemini-", "1.5", "-", "pro">>)),
      Descriptor(Str(<<"models/", "gemini-", "2.0", "-", "flash">>)),
      Descriptor(Str(<<"models/", "text-", "embedding", "-004">>)),
      Descriptor(Undefined) }

Catalogs == SeqUpTo(Descriptors, MaxCatalog)

\* what the catalog request can come to: fetch rejects, a status that is not
\* OK, a body that is no JSON, or a parsed body
DiscoveryOutcomes ==
    { [kind |-> "rejects"], [kind |-> "status"], [kind |-> "unparseable"] }
    \cup { [kind |-> "body", data |-> d] :
             d \in { Null, [type |-> "object", models |-> Undefined],
                     [type |-> "object", models |-> Str(<<"none">>)] } }
    \cup { [kind |-> "body", data |-> [type |-> "object", models |-> Arr(c)]] :
             c \in Catalogs }

\* String.prototype.replace(pattern, '') for a one-fragment pattern: the
\* first occurrence is removed
RECURSIVE RemoveFirst(_, _)
RemoveFirst(s, frag) ==
    IF s = <<>> THEN <<>>
    ELSE IF Head(s) = frag THEN Tail(s)
    ELSE <<Head(s)>> \o RemoveFirst(Tail(s), frag)

\* data.models.map(m => m.name.replace('models/', '')) throws a TypeError
\* when a descriptor's name is not a string
MapThrows(models) ==
    \E i \in 1..Len(models) : models[i].name.type # "string"

MapNames(models) ==
    [i \in 1..Len(models) |-> RemoveFirst(models[i].name.s, "models/")]

\* variant: descriptors without a string name are skipped instead of
\* aborting the mapping
RECURSIVE NamedOnly(_)
NamedOnly(models) ==
    IF models = <<>> THEN <<>>
    ELSE (IF Head(models).name.type = "string" THEN <<Head(models)>> ELSE <<>>)
            \o NamedOnly(Tail(models))

AvailableModelsSkippingUnnamed(o) ==
    IF o.kind # "body" THEN <<>>
    ELSE IF o.data.type # "object" THEN <<>>
    ELSE IF ~Truthy(o.data.models) THEN <<>>
    ELSE IF o.data.models.type # "array" THEN <<>>
    ELSE MapNames(NamedOnly(o.data.models.elems))

\* the try block of the discovery stage: availableModels after it
AvailableModels(o) ==
    IF o.kind # "body" THEN <<>>
    ELSE IF o.data.type # "object" THEN <<>>
    ELSE IF ~Truthy(o.data.models) THEN <<>>
    ELSE IF o.data.models.type # "array" THEN <<>>
    ELSE IF MapThrows(o.data.models.elems) THEN <<>>
    ELSE MapNames(o.data.models.elems)

\* the vision heuristic on a model name
IsVisionName(name) ==
    /\ Includes(name, <<"pro">>) \/ Includes(name, <<"flash">>)
    /\ ~Includes(name, <<"embedding">>)

\* availableModels.filter(...) with the vision heuristic
RECURSIVE VisionModels(_)
VisionModels(s) ==
    IF s = <<>> THEN <<>>
    ELSE (IF IsVisionName(Head(s)) THEN <<Head(s)>> ELSE <<>>)
            \o VisionModels(Tail(s))

\* Array.prototype.slice(0, n)
SliceFront(s, n) == SubSeq(s, 1, IF Len(s) < n THEN Len(s) ELSE n)

StaticModelNames ==
    << <<"gemini-", "pro", "-vision">>,
       <<"gemini-", "pro">>,
       <<"gemini-", "1.5", "-", "pro">>,
       <<"gemini-", "1.5", "-", "flash">>,
       <<"gemini-", "1.5", "-", "flash", "-001">> >>

\* variant: without the slice, the whole catalog is the fallback
ModelNamesWithoutSlice(available) ==
    IF Len(available) > 0
    THEN IF Len(VisionModels(available)) > 0
         THEN VisionModels(available)
         ELSE available
    ELSE StaticModelNames

\* variant: without the unfiltered fallback, the filter's result is the list
ModelNamesFilterOnly(available) ==
    IF Len(available) > 0
    THEN VisionModels(available)
    ELSE StaticModelNames

\* the candidate list chosen from availableModels
ModelNames(available) ==
    IF Len(available) > 0
    THEN IF Len(VisionModels(available)) > 0
         THEN VisionModels(available)
         ELSE SliceFront(available, 3)
    ELSE StaticModelNames

\* the generation request of one candidate: JSON mode only for 1.5 models
GenerationRequest(modelName, mime) ==
    [model |-> modelName,
     temperature |-> "0.4",
     responseMimeType |->
        IF Includes(modelName, <<"1.5">>) THEN "application/json" ELSE "none",
     mimeType |-> mime]

(* ----------------------- response text and JSON ----------------------- *)
\* A response text is a sequence of lexical pieces: the outermost braces of
\* an object, the members between them (carrying the object they denote), a
\* brace-free JSON literal, prose and code fences.
LBrace == [t |-> "{"]
RBrace == [t |-> "}"]
Prose == [t |-> "prose"]
Fence == [t |-> "fence"]
Members(obj) == [t |-> "members", v |-> obj]
Literal(v) == [t |-> "literal", v |-> v]

\* the object a JSON text denotes; a member the text leaves out reads undefined
AnalysisObject(items, total, waste) ==
    [type |-> "object", items |-> items, totalEstimatedValue |-> total,
     estimatedWaste |-> waste]

EmptyObject == AnalysisObject(Undefined, Undefined, Undefined)

Ok(v) == [ok |-> TRUE, value |-> v]
Thrown(e) == [ok |-> FALSE, error |-> e]

\* fences and surrounding white space aside, JSON.parse accepts one literal
\* or one object and throws a SyntaxError on anything else
JsonParse(text) ==
    IF Len(text) = 1 /\ text[1].t = "literal" THEN Ok(text[1].v)
    ELSE IF text = <<LBrace, RBrace>> THEN Ok(EmptyObject)
    ELSE IF Len(text) = 3 /\ text[1] = LBrace /\ text[2].t = "members"
            /\ text[3] = RBrace THEN Ok(text[2].v)
    ELSE Thrown(Err("JSON.parse", <<"Unexpected token in JSON">>))

\* content.match(/\{[\s\S]*\}/): from the first { to the last } after it
HasBraceSpan(text) ==
    \E i, j \in 1..Len(text) : i < j /\ text[i] = LBrace /\ text[j] = RBrace

FirstLBrace(text) ==
    CHOOSE i \in 1..Len(text) :
        text[i] = LBrace /\ \A k \in 1..(i - 1) : text[k] # LBrace

LastRBrace(text) ==
    CHOOSE j \in 1..Len(text) :
        text[j] = RBrace /\ \A k \in (j + 1)..Len(text) : text[k] # RBrace

BraceSpan(text) == SubSeq(text, FirstLBrace(text), LastRBrace(text))

\* the extraction try block: the parsed value, or the parse-failure error
ExtractJson(text) ==
    IF (IF HasBraceSpan(text) THEN JsonParse(BraceSpan(text))
        ELSE JsonParse(text)).ok
    THEN IF HasBraceSpan(text) THEN JsonParse(BraceSpan(text)) ELSE JsonParse(text)
    ELSE Thrown(Err("parse", ParseFailedMsg))

(* --------------------------- normalization ---------------------------- *)
IsObjectLike(v) == v.type \in {"object", "array"}

\* property read: undefined for a property the value does not carry
GetProp(v, name) ==
    IF IsObjectLike(v) /\ name \in DOMAIN v THEN v[name] ELSE Undefined

\* property write on an object or an array
SetProp(v, name, val) ==
    [f \in (DOMAIN v) \cup {name} |-> IF f = name THEN val ELSE v[f]]

ReadOfNullError(v, name) ==
    Err("TypeError",
        <<"Cannot read properties of ">> \o ToStr(v) \o <<" (reading '", name, "')">>)

\* module code is strict: a property write on a primitive throws
WriteOnPrimitiveError(v, name) ==
    Err("TypeError",
        <<"Cannot create property '", name, "' on ", v.type, " '">>
            \o ToStr(v) \o <<"'">>)

\* a call of reduce on a value that has no such method
ReduceMissingError ==
    Err("TypeError", <<"analysis.items.reduce is not a function">>)

\* items.reduce((sum, item) => sum + (item.estimatedValue || 0), 0)
RECURSIVE SumValues(_, _)
SumValues(items, sum) ==
    IF items = <<>> THEN Ok(sum)
    ELSE IF Head(items).type \in {"null", "undefined"}
    THEN Thrown(ReadOfNullError(Head(items), "estimatedValue"))
    ELSE SumValues(Tail(items),
                   Plus(sum,
                        IF Truthy(GetProp(Head(items), "estimatedValue"))
                        THEN GetProp(Head(items), "estimatedValue")
                        ELSE Num(0)))

\* variant: only a falsy items is replaced
WithItemsIfFalsy(a) ==
    IF ~Truthy(GetProp(a, "items"))
    THEN SetProp(a, "items", Arr(<<>>))
    ELSE a

\* the items default
WithItems(a) ==
    IF ~Truthy(GetProp(a, "items")) \/ GetProp(a, "items").type # "array"
    THEN SetProp(a, "items", Arr(<<>>))
    ELSE a

\* variant: the total is recomputed when it is falsy, whatever its type
WithTotalIfFalsy(a) ==
    IF ~Truthy(GetProp(a, "totalEstimatedValue"))
    THEN IF a.items.type # "array"
         THEN Thrown(ReduceMissingError)
         ELSE IF SumValues(a.items.elems, Num(0)).ok
         THEN Ok(SetProp(a, "totalEstimatedValue",
                         SumValues(a.items.elems, Num(0)).value))
         ELSE SumValues(a.items.elems, Num(0))
    ELSE Ok(a)

\* the totalEstimatedValue default: items.reduce(...) when it is no number
WithTotal(a) ==
    IF GetProp(a, "totalEstimatedValue").type # "number"
    THEN IF a.items.type # "array"
         THEN Thrown(ReduceMissingError)
         ELSE IF SumValues(a.items.elems, Num(0)).ok
         THEN Ok(SetProp(a, "totalEstimatedValue",
                         SumValues(a.items.elems, Num(0)).value))
         ELSE SumValues(a.items.elems, Num(0))
    ELSE Ok(a)

\* the estimatedWaste default
WithWaste(a) ==
    IF ~Truthy(GetProp(a, "estimatedWaste"))
    THEN SetProp(a, "estimatedWaste",
                 [type |-> "object", weight |-> Str(<<"unknown">>),
                  percentage |-> Str(<<"unknown">>)])
    ELSE a

\* the three defaults in order: the returned analysis, or the error thrown
Normalize(analysis) ==
    IF analysis.type \in {"null", "undefined"}
    THEN Thrown(ReadOfNullError(analysis, "items"))
    ELSE IF ~IsObjectLike(analysis)
    THEN Thrown(WriteOnPrimitiveError(analysis, "items"))
    ELSE IF WithTotal(WithItems(analysis)).ok
    THEN Ok(WithWaste(WithTotal(WithItems(analysis)).value))
    ELSE WithTotal(WithItems(analysis))

\* everything after the loop's success: extraction, then normalization
ParseAndNormalize(text) ==
    IF ExtractJson(text).ok THEN Normalize(ExtractJson(text).value)
    ELSE ExtractJson(text)

(* --------------------- outcomes of a generation call ------------------ *)
\* errors generateContent (or response.text()) throws
GenerationErrors ==
    { Err("generateContent", m) : m \in
        { <<"[", "404", " Not Found] model is not found for API version v1beta">>,
          <<"[", "429", " Too Many Requests] You exceeded your current ", "quota">>,
          <<"[", "429", " Too Many Requests] ", "API_KEY", "_SERVICE_BLOCKED">>,
          <<"[", "400", " Bad Request] ", "API key", " not valid. ", "API_KEY", "_INVALID">>,
          <<"[", "403", " Forbidden] ", "PERMISSION_DENIED">>,
          <<"[", "400", " Bad Request] ", "INVALID_ARGUMENT">>,
          <<"[", "401", " Unauthorized] ", "API key", " expired">>,
          <<"[", "503", " Service Unavailable] ", "rate limit", " reached">>,
          <<>> } }

ItemOf(value) == [type |-> "object", estimatedValue |-> value]

WasteOf(weight, percentage) ==
    [type |-> "object", weight |-> weight, percentage |-> percentage]

CompletePayload ==
    AnalysisObject(Arr(<<ItemOf(Num(1))>>), Num(1),
                   WasteOf(Str(<<"2 lb">>), Str(<<"half">>)))

SloppyPayload ==
    AnalysisObject(Arr(<<ItemOf(Str(<<"2.5">>))>>), Str(<<"N/A">>),
                   [type |-> "object"])

\* response texts the generation call of the pipeline answers with
ResponseTexts ==
    { <<>>,
      <<Prose>>,
      <<LBrace, RBrace>>,
      <<LBrace, Members(CompletePayload), RBrace>>,
      <<Fence, LBrace, Members(CompletePayload), RBrace, Fence>>,
      <<LBrace, Members(CompletePayload), RBrace, Prose, RBrace>>,
      <<LBrace, Members(SloppyPayload), RBrace>>,
      <<LBrace, Members(AnalysisObject(Null, Num(0 - 1), Undefined)), RBrace>>,
      <<Literal(Null)>>,
      <<Literal(Arr(<<>>))>> }

GenerationOutcomes ==
    { [kind |-> "throws", error |-> e] : e \in GenerationErrors }
    \cup { [kind |-> "text", text |-> t] : t \in ResponseTexts }

(* ------------------------------- state -------------------------------- *)
VARIABLES
    pc,              \* where the request handler and analyzeFoodWaste stand
    reqFile,         \* the upload carried an image file (req.file)
    httpStatus,      \* the status of the response, 0 before it is sent
    apiKeySet,       \* process.env.GEMINI_API_KEY is a non-empty string
    imagePath,       \* the argument
    fileExists,      \* the file system has a file at imagePath
    mimeType,
    availableModels,
    modelNames,
    idx,             \* position of the for-of loop in modelNames
    lastError,
    modelContent,
    caught,          \* the error the outer catch block received
    outcome,         \* "pending", "returned" or "raised"
    result,          \* the value returned to the caller
    raised,          \* the error thrown to the caller
    catalogCalls,    \* history: catalog requests issued
    discovery,       \* history: what the catalog request came to
    requests,        \* history: generation requests issued, in order
    lastFailure,     \* history: the error of the most recent failed request
    successAt,       \* history: position of the request that answered, or 0
    successText      \* history: the text that request answered with

vars == <<pc, reqFile, httpStatus, apiKeySet, imagePath, fileExists, mimeType, availableModels,
          modelNames, idx, lastError, modelContent, caught, outcome, result,
          raised, catalogCalls, discovery, requests, lastFailure, successAt,
          successText>>

env == <<reqFile, apiKeySet, imagePath, fileExists>>
history == <<catalogCalls, discovery, requests, lastFailure, successAt, successText>>

\* locals and histories at the entry of analyzeFoodWaste
EntryLocals ==
    /\ httpStatus = 0
    /\ mimeType = "unset"
    /\ availableModels = <<>>
    /\ modelNames = <<>>
    /\ idx = 1
    /\ lastError = NoError
    /\ modelContent = Null
    /\ caught = NoError
    /\ outcome = "pending"
    /\ result = Undefined
    /\ raised = NoError
    /\ catalogCalls = 0
    /\ discovery = [kind |-> "none"]
    /\ requests = <<>>
    /\ lastFailure = NoError
    /\ successAt = 0
    /\ successText = Null

\* a POST /api/analyze-waste request arrives, with or without an image
Init ==
    /\ pc = "route"
    /\ reqFile \in BOOLEAN
    /\ apiKeySet \in BOOLEAN
    /\ imagePath \in (IF reqFile THEN ImagePaths ELSE {<<>>})
    /\ fileExists \in (IF reqFile THEN BOOLEAN ELSE {FALSE})
    /\ EntryLocals

\* the route's guard: without a file the answer is 400 and
\* analyzeFoodWaste is not called
RouteReceive ==
    /\ pc = "route"
    /\ IF ~reqFile
       THEN /\ httpStatus' = 400
            /\ pc' = "responded"
       ELSE /\ pc' = "entry"
            /\ UNCHANGED httpStatus
    /\ UNCHANGED <<env, mimeType, availableModels, modelNames, idx, lastError,
                   modelContent, caught, outcome, result, raised, history>>

\* variant: the credential check is missing
CheckKeyOmitted ==
    /\ pc = "entry"
    /\ pc' = "read"
    /\ UNCHANGED <<env, mimeType, availableModels, modelNames, idx, lastError,
                   modelContent, caught, outcome, result, raised, history, httpStatus>>

\* lines 16-18: the credential check
CheckKey ==
    /\ pc = "entry"
    /\ IF ~apiKeySet
       THEN /\ caught' = Err("config", ConfigMissingMsg)
            /\ pc' = "catch"
       ELSE /\ pc' = "read"
            /\ UNCHANGED caught
    /\ UNCHANGED <<env, mimeType, availableModels, modelNames, idx, lastError,
                   modelContent, outcome, result, raised, history, httpStatus>>

\* lines 21-27: read the image, derive the media type
ReadImage ==
    /\ pc = "read"
    /\ IF fileExists
       THEN /\ mimeType' = MimeType(imagePath)
            /\ pc' = "discover"
            /\ UNCHANGED caught
       ELSE /\ caught' = EnoentError(imagePath)
            /\ pc' = "catch"
            /\ UNCHANGED mimeType
    /\ UNCHANGED <<env, availableModels, modelNames, idx, lastError,
                   modelContent, outcome, result, raised, history, httpStatus>>

\* lines 57-91: the catalog request and the choice of the candidate list,
\* for the outcomes the catalog request can come to
ListModelsFrom(outcomes) ==
    /\ pc = "discover"
    /\ \E o \in outcomes :
          /\ discovery' = o
          /\ availableModels' = AvailableModels(o)
          /\ modelNames' = ModelNames(AvailableModels(o))
    /\ catalogCalls' = catalogCalls + 1
    /\ pc' = IF Len(modelNames') = 0 THEN "after" ELSE "loop"
    /\ UNCHANGED <<env, mimeType, idx, lastError, modelContent, caught, outcome,
                   result, raised, requests, lastFailure, successAt, successText,
                   httpStatus>>

ListModels == ListModelsFrom(DiscoveryOutcomes)

\* variant: the loop has no break, a later candidate is tried after a success
TryModelWithoutBreak ==
    /\ pc = "loop"
    /\ idx <= Len(modelNames)
    /\ requests' = Append(requests, GenerationRequest(modelNames[idx], mimeType))
    /\ \E o \in GenerationOutcomes :
          IF o.kind = "text"
          THEN /\ modelContent' = Str(o.text)
               /\ successAt' = IF successAt = 0 THEN Len(requests) + 1 ELSE successAt
               /\ successText' = IF successAt = 0 THEN Str(o.text) ELSE successText
               /\ UNCHANGED <<lastError, lastFailure>>
          ELSE /\ lastError' = o.error
               /\ lastFailure' = o.error
               /\ UNCHANGED <<modelContent, successAt, successText>>
    /\ idx' = idx + 1
    /\ pc' = IF idx + 1 <= Len(modelNames) THEN "loop" ELSE "after"
    /\ UNCHANGED <<env, mimeType, availableModels, modelNames, caught, outcome,
                   result, raised, catalogCalls, discovery, httpStatus>>

\* lines 98-135: one iteration of the loop over modelNames
TryModel ==
    /\ pc = "loop"
    /\ idx <= Len(modelNames)
    /\ requests' = Append(requests, GenerationRequest(modelNames[idx], mimeType))
    /\ \E o \in GenerationOutcomes :
          IF o.kind = "text"
          THEN /\ modelContent' = Str(o.text)
               /\ successAt' = Len(requests) + 1
               /\ successText' = Str(o.text)
               /\ pc' = "after"
               /\ UNCHANGED <<idx, lastError, lastFailure>>
          ELSE /\ lastError' = o.error
               /\ lastFailure' = o.error
               /\ idx' = idx + 1
               /\ pc' = IF idx + 1 <= Len(modelNames) THEN "loop" ELSE "after"
               /\ UNCHANGED <<modelContent, successAt, successText>>
    /\ UNCHANGED <<env, mimeType, availableModels, modelNames, caught, outcome,
                   result, raised, catalogCalls, discovery, httpStatus>>

\* lines 138-140: the test that stands for 'all models failed'
CheckAllFailed ==
    /\ pc = "after"
    /\ IF ~Truthy(modelContent)
       THEN /\ caught' = Err("allFailed", AllFailedMsg(lastError, modelNames))
            /\ pc' = "catch"
       ELSE /\ pc' = "parse"
            /\ UNCHANGED caught
    /\ UNCHANGED <<env, mimeType, availableModels, modelNames, idx, lastError,
                   modelContent, outcome, result, raised, history, httpStatus>>

\* lines 142-178: extraction, normalization, return
ParseResponse ==
    /\ pc = "parse"
    /\ IF ParseAndNormalize(modelContent.s).ok
       THEN /\ result' = ParseAndNormalize(modelContent.s).value
            /\ outcome' = "returned"
            /\ pc' = "done"
            /\ UNCHANGED caught
       ELSE /\ caught' = ParseAndNormalize(modelContent.s).error
            /\ pc' = "catch"
            /\ UNCHANGED <<result, outcome>>
    /\ UNCHANGED <<env, mimeType, availableModels, modelNames, idx, lastError,
                   modelContent, raised, history, httpStatus>>

\* lines 179-198: the outer catch block
CatchAndClassify ==
    /\ pc = "catch"
    /\ raised' = Classify(caught)
    /\ outcome' = "raised"
    /\ pc' = "done"
    /\ UNCHANGED <<env, mimeType, availableModels, modelNames, idx, lastError,
                   modelContent, caught, result, history, httpStatus>>

\* what logWaste can come to once the analysis has been returned
StorageOutcomes ==
    { [kind |-> "stored"],
      [kind |-> "throws", error |-> Err("logWaste", <<"SQLITE_ERROR: no such table">>)],
      [kind |-> "throws",
       error |-> Err("logWaste", <<"SQLITE_TOOBIG: row of ", "400", " KB">>)] }

\* the status the route's catch block selects from an error message
StatusOf(message) ==
    IF Includes(message, <<"quota">>) \/ Includes(message, <<"429">>)
       \/ Includes(message, <<"rate limit">>)
    THEN 429
    ELSE IF Includes(message, <<"API key">>) \/ Includes(message, <<"API_KEY">>)
            \/ Includes(message, <<"401">>) \/ Includes(message, <<"403">>)
            \/ Includes(message, <<"PERMISSION_DENIED">>)
    THEN 401
    ELSE IF Includes(message, <<"file not found">>) \/ Includes(message, <<"ENOENT">>)
    THEN 404
    ELSE IF Includes(message, <<"400">>) \/ Includes(message, <<"INVALID_ARGUMENT">>)
    THEN 400
    ELSE 500

\* the route after analyzeFoodWaste: store the entry and answer 200, or
\* answer with the status selected from the error
RouteRespond ==
    /\ pc = "done"
    /\ IF outcome = "raised"
       THEN httpStatus' = StatusOf(raised.message)
       ELSE \E s \in StorageOutcomes :
               httpStatus' = IF s.kind = "stored" THEN 200
                             ELSE StatusOf(s.error.message)
    /\ pc' = "responded"
    /\ UNCHANGED <<env, mimeType, availableModels, modelNames, idx, lastError,
                   modelContent, caught, outcome, result, raised, history>>

Next ==
    \/ RouteReceive
    \/ CheckKey
    \/ ReadImage
    \/ ListModels
    \/ TryModel
    \/ CheckAllFailed
    \/ ParseResponse
    \/ CatchAndClassify
    \/ RouteRespond

Spec == Init /\ [][Next]_vars

(* ------------- candidate selection over bounded catalogs -------------- *)
\* named descriptors: vision models, embedding models (one with "pro" in
\* its name) and a model that is neither
SelectionDescriptors ==
    { Descriptor(Str(<<"models/", "gemini-", "1.5", "-", "pro">>)),
      Descriptor(Str(<<"models/", "gemini-", "2.0", "-", "flash">>)),
      Descriptor(Str(<<"models/", "text-", "embedding", "-004">>)),
      Descriptor(Str(<<"models/", "embedding", "-", "pro", "-preview">>)),
      Descriptor(Str(<<"models/", "aqa">>)) }

SelectionOutcomes ==
    { [kind |-> "body", data |-> [type |-> "object", models |-> Arr(c)]] :
        c \in SeqUpTo(SelectionDescriptors, MaxSelection) }

\* the call right before its catalog request
SelectionInit ==
    /\ pc = "discover"
    /\ reqFile = TRUE
    /\ httpStatus = 0
    /\ apiKeySet = TRUE
    /\ imagePath = UploadPath(<<"1762089000111">>, <<"52731">>, <<"plate", ".png">>)
    /\ fileExists = TRUE
    /\ mimeType = MimeType(imagePath)
    /\ availableModels = <<>>
    /\ modelNames = <<>>
    /\ idx = 1
    /\ lastError = NoError
    /\ modelContent = Null
    /\ caught = NoError
    /\ outcome = "pending"
    /\ result = Undefined
    /\ raised = NoError
    /\ catalogCalls = 0
    /\ discovery = [kind |-> "none"]
    /\ requests = <<>>
    /\ lastFailure = NoError
    /\ successAt = 0
    /\ successText = Null

ListSelection == ListModelsFrom(SelectionOutcomes)

SelectionNext == ListSelection

SelectionSpec == SelectionInit /\ [][SelectionNext]_vars

(* --------------- normalization over bounded payloads ------------------ *)
MoneyValues == { Num(n) : n \in (0 - MaxValue)..MaxValue }

\* what an item can carry as estimatedValue
ItemValueFields == {Undefined, Null, Str(<<"2.5">>)} \cup MoneyValues

\* elements of an items array: item objects, null, and a bare string
ItemElements ==
    {Null, Str(<<"bread">>)} \cup { ItemOf(v) : v \in ItemValueFields }

ItemsFields ==
    {Undefined, Null, Str(<<"none">>), Num(1), [type |-> "object"]}
    \cup { Arr(e) : e \in SeqUpTo(ItemElements, MaxItems) }

TotalFields == {Undefined, Null, Str(<<"N/A">>)} \cup MoneyValues

WasteFields ==
    {Undefined, [type |-> "object"], WasteOf(Str(<<"2 lb">>), Str(<<"half">>))}

\* response texts: every combination of the three members as one JSON
\* object, and the brace-free JSON literals
NormalizationTexts ==
    { <<LBrace, Members(AnalysisObject(i, t, w)), RBrace>> :
        i \in ItemsFields, t \in TotalFields, w \in WasteFields }
    \cup { <<Literal(v)>> :
             v \in {Null, Num(1), Str(<<"ok">>), Bool(TRUE), Bool(FALSE), Arr(<<>>)} }

\* the call right after its first candidate answered with a non-empty text
NormalizationInit ==
    /\ pc = "parse"
    /\ reqFile = TRUE
    /\ httpStatus = 0
    /\ apiKeySet = TRUE
    /\ imagePath = UploadPath(<<"1762089000111">>, <<"52731">>, <<"plate", ".png">>)
    /\ fileExists = TRUE
    /\ mimeType = MimeType(imagePath)
    /\ availableModels = <<>>
    /\ modelNames = StaticModelNames
    /\ idx = 1
    /\ lastError = NoError
    /\ \E t \in NormalizationTexts :
          /\ modelContent = Str(t)
          /\ successText = Str(t)
    /\ caught = NoError
    /\ outcome = "pending"
    /\ result = Undefined
    /\ raised = NoError
    /\ catalogCalls = 1
    /\ discovery = [kind |-> "rejects"]
    /\ requests = <<GenerationRequest(StaticModelNames[1], mimeType)>>
    /\ lastFailure = NoError
    /\ successAt = 1

NormalizationNext ==
    \/ ParseResponse
    \/ CatchAndClassify

NormalizationSpec == NormalizationInit /\ [][NormalizationNext]_vars

(* ------------------------------ properties ---------------------------- *)
\* the call has ended by raising an error to the caller
Raised == pc = "done" /\ outcome = "raised"

\* the call has ended by returning a value
Returned == pc = "done" /\ outcome = "returned"

\* the models of the generation requests issued so far, in order
RequestedModels == [i \in 1..Len(requests) |-> requests[i].model]

\* C1: with the credential absent the caller receives the
\* configuration-missing error itself, before any other mapping of the
\* classification table.  (Stated as the claim reads; the code breaks it.)
C1_ConfigErrorReraised ==
    (pc = "done" /\ ~apiKeySet) =>
        /\ outcome = "raised"
        /\ raised = Err("config", ConfigMissingMsg)
        /\ KindOf(raised) = "ConfigurationError"

\* C2: with the credential absent no catalog request and no generation
\* request is ever issued.
C2_NoNetworkWithoutKey ==
    ~apiKeySet => (catalogCalls = 0 /\ requests = <<>>)

C2_Witness == ~apiKeySet /\ Raised /\ caught.site = "config"

\* C3: first success wins.  Once the k-th request has answered with a text,
\* exactly k requests have been issued, for candidates 1..k in list order,
\* none is issued afterwards, and a returned result is the one derived from
\* that text.
C3_FirstSuccessWins ==
    successAt > 0 =>
        /\ Len(requests) = successAt
        /\ RequestedModels = SubSeq(modelNames, 1, successAt)
        /\ modelContent = successText
        /\ Returned => result = ParseAndNormalize(successText.s).value

C3_Witness ==
    /\ Returned
    /\ successAt = 2
    /\ Len(modelNames) >= 3
    /\ lastFailure # NoError

\* C4: the aggregate 'all model attempts failed' error is thrown only when
\* no candidate's generation call completed.  (Stated as the claim reads;
\* the code breaks it.)
C4_AggregateOnlyIfAllFailed ==
    caught.site = "allFailed" => successAt = 0

\* C5: when every candidate's call throws, the aggregate message lists the
\* whole candidate list in list order, every candidate was requested in that
\* order, and the message contains the last candidate's error message.
C5_AggregateMessage ==
    (caught.site = "allFailed" /\ successAt = 0) =>
        /\ RequestedModels = modelNames
        /\ Includes(caught.message, <<". Tried models: ">> \o Join(modelNames))
        /\ EndsWith(caught.message, Join(modelNames))
        /\ lastFailure # NoError
        /\ Includes(caught.message, lastFailure.message \o <<". Tried models: ">>)
        /\ (Raised /\ KindOf(raised) = "GenericAnalysisFailure")
              => Includes(raised.message, caught.message)

C5_Witness ==
    /\ Raised
    /\ caught.site = "allFailed"
    /\ successAt = 0
    /\ Len(requests) >= 2
    /\ lastFailure.message # <<>>
    /\ KindOf(raised) = "GenericAnalysisFailure"

\* a discovery outcome that is a failure: fetch rejects, non-OK status,
\* unparseable body, body without a models list, descriptor without a name
DiscoveryFailed(o) ==
    \/ o.kind \in {"rejects", "status", "unparseable"}
    \/ /\ o.kind = "body"
       /\ \/ o.data.type # "object"
          \/ o.data.models.type # "array"
          \/ \E i \in 1..Len(o.data.models.elems) :
                o.data.models.elems[i].name.type # "string"

\* C6: a failed discovery never raises; the call goes on to the generation
\* loop with exactly the static fallback list.
C6_DiscoveryNeverRaises ==
    DiscoveryFailed(discovery) =>
        /\ pc # "catch" \/ caught.site \in {"allFailed", "parse", "TypeError"}
        /\ availableModels = <<>>
        /\ modelNames = StaticModelNames
        /\ RequestedModels = SubSeq(StaticModelNames, 1, Len(requests))
        /\ pc = "done" => Len(requests) >= 1

C6_Witness ==
    /\ discovery.kind = "body"
    /\ discovery.data.type = "object"
    /\ discovery.data.models.type = "array"
    /\ Len(discovery.data.models.elems) = 2
    /\ discovery.data.models.elems[1].name.type = "string"
    /\ discovery.data.models.elems[2].name.type # "string"
    /\ Returned
    /\ Len(requests) = 5

\* C7: every returned totalEstimatedValue is a number and is not negative.
\* (Stated as the claim reads; the code breaks it.)
C7_TotalNonNegativeNumber ==
    Returned =>
        /\ GetProp(result, "totalEstimatedValue").type = "number"
        /\ GetProp(result, "totalEstimatedValue").n >= 0

\* the upstream value the returned result was normalized from
Upstream == ExtractJson(successText.s).value

\* C8: every returned estimatedWaste is an object with a weight and a
\* percentage field, and is the 'unknown' default when upstream omits it.
\* (Stated as the claim reads; the code breaks it.)
C8_WasteHasBothFields ==
    Returned =>
        /\ GetProp(result, "estimatedWaste").type = "object"
        /\ GetProp(GetProp(result, "estimatedWaste"), "weight") # Undefined
        /\ GetProp(GetProp(result, "estimatedWaste"), "percentage") # Undefined
        /\ GetProp(Upstream, "estimatedWaste") = Undefined
              => GetProp(result, "estimatedWaste")
                    = WasteOf(Str(<<"unknown">>), Str(<<"unknown">>))

\* C9 as the claim reads: a failure whose message contains "429" is raised
\* as QuotaExceeded whatever else the message contains.
C9_Any429IsQuota ==
    (Raised /\ Includes(caught.message, <<"429">>))
        => KindOf(raised) = "QuotaExceeded"

\* C9 amended: a failure whose message contains "429" and does not contain
\* "API_KEY" is raised as QuotaExceeded, whichever stage produced it; one
\* that also contains "API_KEY" is raised as InvalidCredential.
C9_429WithoutApiKeyIsQuota ==
    (Raised /\ Includes(caught.message, <<"429">>)) =>
        IF Includes(caught.message, <<"API_KEY">>)
        THEN KindOf(raised) = "InvalidCredential"
        ELSE KindOf(raised) = "QuotaExceeded"

C9_Witness ==
    /\ Raised
    /\ caught.site = "readFileSync"
    /\ Includes(caught.message, <<"429">>)
    /\ ~Includes(caught.message, <<"quota">>)
    /\ KindOf(raised) = "QuotaExceeded"

\* C10: a missing image file (ENOENT from the read) is raised as
\* SourceImageNotFound for every image path.  (Stated as the claim reads;
\* the code breaks it.)
C10_EnoentIsImageNotFound ==
    (Raised /\ caught.site = "readFileSync" /\ Includes(caught.message, <<"ENOENT">>))
        => KindOf(raised) = "SourceImageNotFound"

\* C11: no partial results.  A returned value satisfies the canonical-record
\* invariants together: items is an array, totalEstimatedValue is a number,
\* estimatedWaste is an object with weight and percentage.  (Stated as the
\* claim reads; the code breaks it.)
C11_NoPartialResults ==
    outcome = "returned" =>
        /\ GetProp(result, "items").type = "array"
        /\ GetProp(result, "totalEstimatedValue").type = "number"
        /\ GetProp(result, "estimatedWaste").type = "object"
        /\ GetProp(GetProp(result, "estimatedWaste"), "weight").type # "undefined"
        /\ GetProp(GetProp(result, "estimatedWaste"), "percentage").type # "undefined"

\* the JSON value a normalization text denotes, read off the text itself
Denoted(text) == IF Len(text) = 1 THEN text[1].v ELSE text[2].v

\* C12: whenever the call returns, items is an array: the upstream array
\* unchanged, elements as they came, or the empty array when upstream omits
\* items or supplies something that is no array.
C12_ItemsIsArray ==
    outcome = "returned" =>
        /\ GetProp(result, "items").type = "array"
        /\ GetProp(Denoted(successText.s), "items").type = "array"
              => GetProp(result, "items") = GetProp(Denoted(successText.s), "items")
        /\ GetProp(Denoted(successText.s), "items").type # "array"
              => GetProp(result, "items") = Arr(<<>>)

C12_Witness ==
    /\ outcome = "returned"
    /\ GetProp(Denoted(successText.s), "items") = Str(<<"none">>)
    /\ GetProp(result, "items") = Arr(<<>>)

\* the amount an item counts for: its numeric estimatedValue, zero when the
\* value is missing
Amount(item) ==
    IF GetProp(item, "estimatedValue").type = "number"
    THEN GetProp(item, "estimatedValue").n
    ELSE 0

RECURSIVE ArithmeticSum(_)
ArithmeticSum(items) ==
    IF items = <<>> THEN 0 ELSE Amount(Head(items)) + ArithmeticSum(Tail(items))

\* every item's estimatedValue is a number or is missing
ValuesNumericOrMissing(items) ==
    \A k \in 1..Len(items) :
        GetProp(items[k], "estimatedValue").type \in {"number", "undefined", "null"}

C14_UnparseableTextIsParseFailure ==
    ( /\ pc \in {"done", "responded"}
      /\ successAt > 0
      /\ ~HasBraceSpan(successText.s)
      /\ ~JsonParse(successText.s).ok ) =>
        /\ outcome = "raised"
        /\ result = Undefined
        /\ caught = Err("parse", ParseFailedMsg)
        /\ Includes(raised.message, ParseFailedMsg)
        /\ Len(requests) = successAt

\* the identifiers of the catalog the discovery answered with: each name
\* without its leading models/
CatalogIds ==
    [i \in 1..Len(discovery.data.models.elems) |->
        Tail(discovery.data.models.elems[i].name.s)]

\* positions of the catalog whose identifier passes the vision heuristic
Passing ==
    { i \in 1..Len(CatalogIds) :
        /\ Includes(CatalogIds[i], <<"pro">>) \/ Includes(CatalogIds[i], <<"flash">>)
        /\ ~Includes(CatalogIds[i], <<"embedding">>) }

\* the k-th smallest position of a set of positions
KthOf(S, k) == CHOOSE i \in S : Cardinality({j \in S : j <= i}) = k

\* the discovery answered with a non-empty catalog of named descriptors
CatalogListed ==
    /\ discovery.kind = "body"
    /\ discovery.data.type = "object"
    /\ discovery.data.models.type = "array"
    /\ Len(discovery.data.models.elems) > 0
    /\ \A i \in 1..Len(discovery.data.models.elems) :
          /\ discovery.data.models.elems[i].name.type = "string"
          /\ Head(discovery.data.models.elems[i].name.s) = "models/"

\* C15: after a discovery that lists a non-empty catalog the candidates are
\* the identifiers that pass the vision heuristic, in catalog order; when
\* none passes, the first three identifiers of the catalog, unfiltered.
C15_CandidateSelection ==
    CatalogListed =>
        IF Passing # {}
        THEN /\ Len(modelNames) = Cardinality(Passing)
             /\ \A k \in 1..Len(modelNames) :
                   modelNames[k] = CatalogIds[KthOf(Passing, k)]
        ELSE /\ Len(modelNames) = (IF Len(CatalogIds) < 3 THEN Len(CatalogIds) ELSE 3)
             /\ \A k \in 1..Len(modelNames) : modelNames[k] = CatalogIds[k]

C15_Witness ==
    /\ CatalogListed
    /\ Len(CatalogIds) = 4
    /\ Passing = {}
    /\ Len(modelNames) = 3
    /\ Includes(modelNames[1], <<"embedding">>)
    /\ Includes(modelNames[1], <<"pro">>)

\* C16: the candidate list that enters the loop is never empty, whatever the
\* discovery came to; a call with the credential set and the image readable
\* issues at least one generation request and at most one per candidate.
C16_CandidatesNeverEmpty ==
    /\ catalogCalls > 0 => Len(modelNames) >= 1
    /\ Len(requests) <= Len(modelNames)
    /\ (pc \in {"done", "responded"} /\ reqFile /\ apiKeySet /\ fileExists)
          => Len(requests) >= 1

C16_Witness ==
    /\ pc = "done"
    /\ CatalogListed
    /\ Passing = {}
    /\ Len(modelNames) = Len(CatalogIds)
    /\ Len(requests) = Len(modelNames)
    /\ successAt = 0

\* C17: the route answers an error raised by analyzeFoodWaste with 429, 401,
\* 404 or 500 and never with 400; an InvalidRequest error is answered with
\* 500; 400 is the answer only to a request without a file or to an error of
\* the storage step.
C17_RouteStatus ==
    pc = "responded" =>
        /\ outcome = "raised" => httpStatus \in {429, 401, 404, 500}
        /\ (outcome = "raised" /\ KindOf(raised) = "InvalidRequest")
              => httpStatus = 500
        /\ httpStatus = 400 => (~reqFile \/ outcome = "returned")

C17_Witness ==
    /\ pc = "responded"
    /\ outcome = "raised"
    /\ Includes(caught.message, <<"INVALID_ARGUMENT">>)
    /\ KindOf(raised) = "InvalidRequest"
    /\ httpStatus = 500

====
